---- MODULE Spec2Model ----
(***************************************************************************)
(* Model of the KAST Bank admin backend (src/main.py, src/models.py,       *)
(* src/database.py): the Account and Transaction tables, the CRUD          *)
(* handlers, the admin session set and the transaction generator.          *)
(*                                                                         *)
(* Money is a float in the code.  Here an amount is an integer number of   *)
(* 1/10000 currency units (Cent = 100), and arithmetic is exact.           *)
(* round(x, 2) yields the nearest cent; at an exact half cent the float    *)
(* result depends on the binary representation of x, so both neighbours    *)
(* are possible outcomes.  Time is an integer number of seconds.           *)
(***************************************************************************)
EXTENDS Integers, Sequences, FiniteSets, TLC

VARIABLES
    started,          \* the process has run its lifespan startup
    account,          \* rows of the account table (balance is the only field read)
    transactions,     \* rows of the transaction table, in insertion order
    active_sessions,  \* main.py:16, the in-memory set of admin session tokens
    pc,               \* position of the generate_transactions handler
    g,                \* locals of the generate_transactions call in progress
    resp              \* the response of the last completed handler

vars == <<started, account, transactions, active_sessions, pc, g, resp>>

-----------------------------------------------------------------------------
(* Units and program constants *)

Cent == 100
min_tx_amount == 100
SecondsPerMinute == 60

SeedBalance == 9500
SeedSentAmount == 480500
SeedReceivedAmount == 490000
SeedFeeAmount == 0
SeedSentAt == 420
SeedReceivedAt == 240
SeedFeeAt == 0

(* Bounds of the model *)

DefaultWindow == 60     \* timedelta(days=30), scaled down to seconds
MaxRows == 4            \* cap on the rows one generate call may draw in the split loop
MaxLedger == 1          \* create_transaction is explored on ledgers shorter than this
MaxGenLedger == 3       \* generate is explored on ledgers of at most this many rows
SysGenLedger == 0       \* the same, in the specification of the whole service
MaxDiff == 400          \* generate is explored for |difference| up to this amount
GenLedgerLen == 1       \* longest ledger the generator's own specification starts from
MaxId == 1              \* transaction ids addressed by update and delete

\* start_time: omitted (None), or a string that parses (to the time t) or not
NoStart == [given |-> FALSE, parses |-> FALSE, t |-> 0]
BadStart == [given |-> TRUE, parses |-> FALSE, t |-> 0]
StartAt(t) == [given |-> TRUE, parses |-> TRUE, t |-> t]

Nows == {630}
StartTimes == {NoStart, BadStart, StartAt(610), StartAt(720)}
Balances == {0, 100, 150}
TxAmounts == {-200, 150}
TxTypes == {"received", "sent", "fee"}
Tokens == {"t1"}
Cookies == Tokens \cup {"", "forged"}

\* an optional field of a patch: left out, or set to one of the values
Patch(values, none) ==
    {[set |-> FALSE, value |-> none]} \cup {[set |-> TRUE, value |-> v] : v \in values}

\* arguments of generate_transactions: a broad set for the generator's own
\* specification, a narrow sample for the specification of the whole service
GenArgs ==
    [min_count : {0, 1, 3}, max_amount : {0, 40, 150}, min_sent_count : {-1, 0, 1, 3},
     start_time : StartTimes, now_us : Nows]
SysArgs ==
    [min_count : {0, 2}, max_amount : {150}, min_sent_count : {0, 1},
     start_time : {StartAt(600)}, now_us : Nows]

\* request bodies explored in the specification of the whole service
SysBalances == {-150, 150}
SysTxTypes == {"received", "sent"}
SysTxAmounts == {150}

-----------------------------------------------------------------------------
(* Arithmetic helpers *)

Min(a, b) == IF a <= b THEN a ELSE b
Max(a, b) == IF a >= b THEN a ELSE b
Abs(x) == IF x < 0 THEN -x ELSE x

RECURSIVE SumSeq(_)
SumSeq(s) == IF s = <<>> THEN 0 ELSE Head(s) + SumSeq(Tail(s))

\* round(x, 2): the possible results, as a set
Round2(x) ==
    LET q == x \div Cent
        r == x % Cent
    IN  IF 2 * r < Cent THEN {q * Cent}
        ELSE IF 2 * r > Cent THEN {(q + 1) * Cent}
        ELSE {q * Cent, (q + 1) * Cent}

\* round(random.uniform(a, b), 2): uniform draws between the two ends,
\* whichever is larger
UniformRounded(a, b) ==
    UNION {Round2(x) : x \in Min(a, b)..Max(a, b)}

\* truncate a time to the whole minute: replace(second=0, microsecond=0)
TruncMinute(t) == (t \div SecondsPerMinute) * SecondsPerMinute

-----------------------------------------------------------------------------
(* Tables *)

NextId(rows) ==
    IF rows = <<>> THEN 1
    ELSE 1 + (CHOOSE m \in {rows[i].id : i \in 1..Len(rows)} :
                 \A j \in 1..Len(rows) : rows[j].id <= m)

Row(id, tx_type, amount, created_at) ==
    [id |-> id, tx_type |-> tx_type, amount |-> amount, created_at |-> created_at]

\* session.add for each row of a list, then commit: ids in the order added
RECURSIVE AddAll(_, _)
AddAll(rows, new) ==
    IF new = <<>> THEN rows
    ELSE AddAll(Append(rows, [Head(new) EXCEPT !.id = NextId(rows)]), Tail(new))

SeedTransactions ==
    << Row(0, "sent", SeedSentAmount, SeedSentAt),
       Row(0, "received", SeedReceivedAmount, SeedReceivedAt),
       Row(0, "fee", SeedFeeAmount, SeedFeeAt) >>

IdleLocals == [phase |-> "none"]

Idle == started /\ pc = "idle"

Init ==
    /\ started = FALSE
    /\ account = <<>>
    /\ transactions = <<>>
    /\ active_sessions = {}
    /\ pc = "idle"
    /\ g = IdleLocals
    /\ resp = [op |-> "none", status |-> 0]

-----------------------------------------------------------------------------
(* Startup: lifespan runs init_db and seed_data *)

\* seed_data without the "only seed if no account exists" test
seed_data_Unconditional(ok) ==
    IF ok
    THEN /\ account' = Append(account, [balance |-> SeedBalance])
         /\ transactions' = AddAll(transactions, SeedTransactions)
    ELSE UNCHANGED <<account, transactions>>

\* seed_data: insert the account and the demo rows only when no account exists
seed_data(ok) ==
    IF account = <<>> /\ ok
    THEN /\ account' = <<[balance |-> SeedBalance]>>
         /\ transactions' = AddAll(transactions, SeedTransactions)
    ELSE UNCHANGED <<account, transactions>>

\* a process start: module state is fresh, tables are created if missing, the
\* seed runs; a failure while seeding is logged and swallowed (ok = FALSE)
Startup ==
    /\ pc = "idle"
    /\ \E ok \in BOOLEAN : seed_data(ok)
    /\ started' = TRUE
    /\ active_sessions' = {}
    /\ resp' = [op |-> "startup", status |-> 0]
    /\ UNCHANGED <<pc, g>>

-----------------------------------------------------------------------------
(* Account handlers *)

get_account ==
    /\ Idle
    /\ resp' = IF account = <<>>
               THEN [op |-> "get_account", status |-> 404]
               ELSE [op |-> "get_account", status |-> 200]
    /\ UNCHANGED <<started, account, transactions, active_sessions, pc, g>>

\* data.balance is set or left out; the other fields are not read by any handler
update_account(balance) ==
    /\ Idle
    /\ IF account = <<>>
       THEN /\ resp' = [op |-> "update_account", status |-> 404]
            /\ UNCHANGED account
       ELSE /\ account' = IF balance.set
                           THEN <<[account[1] EXCEPT !.balance = balance.value]>>
                                \o Tail(account)
                           ELSE account
            /\ resp' = [op |-> "update_account", status |-> 200]
    /\ UNCHANGED <<started, transactions, active_sessions, pc, g>>

-----------------------------------------------------------------------------
(* Transaction handlers *)

list_transactions ==
    /\ Idle
    /\ resp' = [op |-> "list_transactions", status |-> 200]
    /\ UNCHANGED <<started, account, transactions, active_sessions, pc, g>>

clear_all_transactions ==
    /\ Idle
    /\ transactions' = <<>>
    /\ resp' = [op |-> "clear", status |-> 200, cleared |-> Len(transactions)]
    /\ UNCHANGED <<started, account, active_sessions, pc, g>>

create_transaction(tx_type, amount, now) ==
    /\ Idle
    /\ Len(transactions) < MaxLedger
    /\ transactions' = AddAll(transactions, <<Row(0, tx_type, amount, now)>>)
    /\ resp' = [op |-> "create", status |-> 201]
    /\ UNCHANGED <<started, account, active_sessions, pc, g>>

Index(tx_id) ==
    {i \in 1..Len(transactions) : transactions[i].id = tx_id}

\* data.tx_type and data.amount are each set or left out (exclude_unset)
update_transaction(tx_id, tx_type, amount) ==
    /\ Idle
    /\ IF Index(tx_id) = {}
       THEN /\ resp' = [op |-> "update", status |-> 404, tx_id |-> tx_id]
            /\ UNCHANGED transactions
       ELSE LET i == CHOOSE k \in Index(tx_id) : TRUE
                tx == transactions[i]
                patched == [tx EXCEPT
                              !.tx_type = IF tx_type.set THEN tx_type.value ELSE @,
                              !.amount = IF amount.set THEN amount.value ELSE @]
            IN  /\ transactions' = [transactions EXCEPT ![i] = patched]
                /\ resp' = [op |-> "update", status |-> 200, tx_id |-> tx_id]
    /\ UNCHANGED <<started, account, active_sessions, pc, g>>

delete_transaction(tx_id) ==
    /\ Idle
    /\ IF Index(tx_id) = {}
       THEN /\ resp' = [op |-> "delete", status |-> 404, tx_id |-> tx_id]
            /\ UNCHANGED transactions
       ELSE LET i == CHOOSE k \in Index(tx_id) : TRUE
            IN  /\ transactions' = SubSeq(transactions, 1, i - 1)
                                      \o SubSeq(transactions, i + 1, Len(transactions))
                /\ resp' = [op |-> "delete", status |-> 200, tx_id |-> tx_id]
    /\ UNCHANGED <<started, account, active_sessions, pc, g>>

dashboard ==
    /\ Idle
    /\ resp' = [op |-> "dashboard", status |-> 200]
    /\ UNCHANGED <<started, account, transactions, active_sessions, pc, g>>

-----------------------------------------------------------------------------
(* Admin session handlers *)

\* credentials_ok: username == "Nnn" and password == "Nnn"
admin_login(credentials_ok, session_token) ==
    /\ Idle
    /\ session_token \notin active_sessions
    /\ IF credentials_ok
       THEN /\ active_sessions' = active_sessions \cup {session_token}
            /\ resp' = [op |-> "admin_login", status |-> 303, cookie |-> session_token]
       ELSE /\ resp' = [op |-> "admin_login", status |-> 401, cookie |-> ""]
            /\ UNCHANGED active_sessions
    /\ UNCHANGED <<started, account, transactions, pc, g>>

admin_logout(admin_session) ==
    /\ Idle
    /\ active_sessions' = IF admin_session # ""
                          THEN active_sessions \ {admin_session}
                          ELSE active_sessions
    /\ resp' = [op |-> "admin_logout", status |-> 303, cookie |-> ""]
    /\ UNCHANGED <<started, account, transactions, pc, g>>

\* status 200: admin.html rendered; status 303: redirect to /admin/login
admin_page(admin_session) ==
    /\ Idle
    /\ resp' = IF admin_session = ""
               THEN [op |-> "admin_page", status |-> 303, cookie |-> admin_session]
               ELSE [op |-> "admin_page", status |-> 200, cookie |-> admin_session]
    /\ UNCHANGED <<started, account, transactions, active_sessions, pc, g>>

-----------------------------------------------------------------------------
(* generate_transactions: accounting, short circuit and validation *)

\* the accounting with every row counted, whatever its type
RECURSIVE ActualBalance_CountsEveryType(_)
ActualBalance_CountsEveryType(rows) ==
    IF rows = <<>> THEN 0
    ELSE Head(rows).amount + ActualBalance_CountsEveryType(Tail(rows))

\* the balance the handler computes from the stored rows: 'received' and
\* 'sent' amounts are added as stored, other types are skipped
RECURSIVE ActualBalance(_)
ActualBalance(rows) ==
    IF rows = <<>> THEN 0
    ELSE (IF Head(rows).tx_type \in {"received", "sent"} THEN Head(rows).amount ELSE 0)
         + ActualBalance(Tail(rows))

\* the short circuit as an exact comparison: difference == 0
BalanceMatches_Exact(difference) == difference = 0

\* the short circuit: abs(difference) < 0.01
BalanceMatches(difference) == Abs(difference) < Cent

\* the four argument checks, in the order of the code; "" when all pass
ArgError(min_count, max_amount, min_sent_count) ==
    IF min_count < 1 THEN "min_count must be at least 1"
    ELSE IF max_amount <= 0 THEN "max_amount must be greater than 0"
    ELSE IF min_sent_count < 0 THEN "min_sent_count must be non-negative"
    ELSE IF min_sent_count > min_count
         THEN "min_sent_count cannot be greater than min_count"
    ELSE ""

\* earliest_time: the supplied start cut to the minute, or now - 30 days
EarliestTime(start_time, now_us) ==
    IF start_time.given THEN TruncMinute(start_time.t) ELSE now_us - DefaultWindow

TimeError(start_time, now_us) ==
    IF ~start_time.given THEN ""
    ELSE IF ~start_time.parses THEN "start_time format invalid"
    ELSE IF EarliestTime(start_time, now_us) > now_us THEN "start_time later than now"
    ELSE ""

\* a response that reports no generated rows; request records the arguments
GenResponse(status, message, request) ==
    [op |-> "generate", status |-> status, message |-> message, generated |-> 0,
     request |-> request]

GenerateBegin(min_count, max_amount, min_sent_count, start_time, now_us) ==
    LET request == [min_count |-> min_count, max_amount |-> max_amount,
                    min_sent_count |-> min_sent_count, start_time |-> start_time,
                    now_us |-> now_us]
    IN
    /\ Idle
    /\ IF account = <<>>
       THEN /\ resp' = GenResponse(404, "Account not found", request)
            /\ UNCHANGED <<pc, g>>
       ELSE LET actual_balance == ActualBalance(transactions)
                target_balance == account[1].balance
                difference == target_balance - actual_balance
                arg_error == ArgError(min_count, max_amount, min_sent_count)
                time_error == TimeError(start_time, now_us)
            IN  IF BalanceMatches(difference)
                THEN /\ resp' = GenResponse(200, "Balance already matches target", request)
                     /\ UNCHANGED <<pc, g>>
                ELSE IF arg_error # ""
                THEN /\ resp' = GenResponse(400, arg_error, request)
                     /\ UNCHANGED <<pc, g>>
                ELSE IF time_error # ""
                THEN /\ resp' = GenResponse(400, time_error, request)
                     /\ UNCHANGED <<pc, g>>
                ELSE /\ Abs(difference) <= MaxDiff
                     /\ Len(transactions) <= MaxGenLedger
                     /\ g' = [min_count |-> min_count,
                              max_amount |-> max_amount,
                              min_sent_count |-> min_sent_count,
                              now_us |-> now_us,
                              earliest_time |-> EarliestTime(start_time, now_us),
                              actual_balance |-> actual_balance,
                              target_balance |-> target_balance,
                              difference |-> difference,
                              total_amount |-> Abs(difference),
                              sent_amounts |-> <<>>,
                              received_amounts |-> <<>>,
                              sent_total |-> 0,
                              remaining |-> Abs(difference)]
                     /\ pc' = IF difference > 0 THEN "sent_draws" ELSE "fill_sent"
                     /\ resp' = GenResponse(0, "in progress", request)
    /\ UNCHANGED <<started, account, transactions, active_sessions>>

-----------------------------------------------------------------------------
(* generate_transactions: the draws *)

\* one 'sent' draw of the difference > 0 branch
SentDraws(max_amount, total_amount) ==
    UniformRounded(min_tx_amount, Min(max_amount, (total_amount * 3) \div 10))

\* the greedy fill without the min(max_amount, ...) cap on one draw
FillAmounts_NoMaxCap(n_done, remaining, count, max_amount) ==
    LET remaining_txs_needed == Max(1, count - n_done)
        first == remaining - min_tx_amount * (remaining_txs_needed - 1)
        max_this_tx == IF first < min_tx_amount THEN remaining ELSE first
    IN  {IF a > remaining THEN remaining ELSE a :
            a \in UniformRounded(min_tx_amount, max_this_tx)}

\* one iteration of the greedy fill: the amounts it can append
FillAmounts(n_done, remaining, count, max_amount) ==
    LET remaining_txs_needed == Max(1, count - n_done)
        first == Min(max_amount, remaining - min_tx_amount * (remaining_txs_needed - 1))
        max_this_tx == IF first < min_tx_amount THEN Min(max_amount, remaining) ELSE first
    IN  {IF a > remaining THEN remaining ELSE a :
            a \in UniformRounded(min_tx_amount, max_this_tx)}

\* one iteration of the overflow split: <<amount appended, remaining afterwards>>
SplitSteps(remaining, max_amount) ==
    IF remaining <= max_amount
    THEN {<<a, 0>> : a \in Round2(remaining)}
    ELSE {<<a, remaining - a>> : a \in UniformRounded(max_amount \div 2, max_amount)}

\* the leftover: folded into the last amount, appended as one more row, or dropped
Remainder(amounts, remaining, max_amount) ==
    IF remaining > 0 /\ amounts # <<>>
    THEN LET n == Len(amounts)
         IN  IF amounts[n] + remaining <= max_amount
             THEN {[amounts EXCEPT ![n] = a] : a \in Round2(amounts[n] + remaining)}
             ELSE {Append(amounts, a) : a \in Round2(remaining)}
    ELSE {amounts}

ReceivedCount == Max(1, g.min_count - g.min_sent_count)
SentCount == Max(g.min_sent_count, g.min_count)

\* difference > 0: for _ in range(min_sent_count)
GenSentDraw ==
    /\ pc = "sent_draws"
    /\ Len(g.sent_amounts) < g.min_sent_count
    /\ \E amount \in SentDraws(g.max_amount, g.total_amount) :
          g' = [g EXCEPT !.sent_amounts = Append(@, amount),
                         !.sent_total = @ + amount]
    /\ UNCHANGED <<started, account, transactions, active_sessions, pc, resp>>

\* the received total computed without the 'sent' total it has to cover
GenSentDone_IgnoresSentTotal ==
    /\ pc = "sent_draws"
    /\ Len(g.sent_amounts) >= g.min_sent_count
    /\ g' = [g EXCEPT !.remaining = g.total_amount]
    /\ pc' = "fill_received"
    /\ UNCHANGED <<started, account, transactions, active_sessions, resp>>

GenSentDone ==
    /\ pc = "sent_draws"
    /\ Len(g.sent_amounts) >= g.min_sent_count
    /\ g' = [g EXCEPT !.remaining = g.total_amount + g.sent_total]
    /\ pc' = "fill_received"
    /\ UNCHANGED <<started, account, transactions, active_sessions, resp>>

GenFillReceived ==
    /\ pc = "fill_received"
    /\ IF g.remaining > min_tx_amount /\ Len(g.received_amounts) < ReceivedCount
       THEN /\ \E amount \in FillAmounts(Len(g.received_amounts), g.remaining,
                                          ReceivedCount, g.max_amount) :
                  g' = [g EXCEPT !.received_amounts = Append(@, amount),
                                 !.remaining = @ - amount]
            /\ UNCHANGED pc
       ELSE /\ pc' = "split_received"
            /\ UNCHANGED g
    /\ UNCHANGED <<started, account, transactions, active_sessions, resp>>

GenSplitReceived ==
    /\ pc = "split_received"
    /\ IF g.remaining > min_tx_amount
       THEN /\ Len(g.received_amounts) < MaxRows
            /\ \E step \in SplitSteps(g.remaining, g.max_amount) :
                  g' = [g EXCEPT !.received_amounts = Append(@, step[1]),
                                 !.remaining = step[2]]
            /\ UNCHANGED pc
       ELSE /\ pc' = "remainder_received"
            /\ UNCHANGED g
    /\ UNCHANGED <<started, account, transactions, active_sessions, resp>>

GenRemainderReceived ==
    /\ pc = "remainder_received"
    /\ \E amounts \in Remainder(g.received_amounts, g.remaining, g.max_amount) :
          g' = [g EXCEPT !.received_amounts = amounts]
    /\ pc' = "persist"
    /\ UNCHANGED <<started, account, transactions, active_sessions, resp>>

\* difference < 0: the same procedure on sent_amounts
GenFillSent ==
    /\ pc = "fill_sent"
    /\ IF g.remaining > min_tx_amount /\ Len(g.sent_amounts) < SentCount
       THEN /\ \E amount \in FillAmounts(Len(g.sent_amounts), g.remaining,
                                          SentCount, g.max_amount) :
                  g' = [g EXCEPT !.sent_amounts = Append(@, amount),
                                 !.remaining = @ - amount]
            /\ UNCHANGED pc
       ELSE /\ pc' = "split_sent"
            /\ UNCHANGED g
    /\ UNCHANGED <<started, account, transactions, active_sessions, resp>>

GenSplitSent ==
    /\ pc = "split_sent"
    /\ IF g.remaining > min_tx_amount
       THEN /\ Len(g.sent_amounts) < MaxRows
            /\ \E step \in SplitSteps(g.remaining, g.max_amount) :
                  g' = [g EXCEPT !.sent_amounts = Append(@, step[1]),
                                 !.remaining = step[2]]
            /\ UNCHANGED pc
       ELSE /\ pc' = "remainder_sent"
            /\ UNCHANGED g
    /\ UNCHANGED <<started, account, transactions, active_sessions, resp>>

GenRemainderSent ==
    /\ pc = "remainder_sent"
    /\ \E amounts \in Remainder(g.sent_amounts, g.remaining, g.max_amount) :
          g' = [g EXCEPT !.sent_amounts = amounts]
    /\ pc' = "persist"
    /\ UNCHANGED <<started, account, transactions, active_sessions, resp>>

-----------------------------------------------------------------------------
(* generate_transactions: timestamps, sort, persist, response *)

\* the random offset drawn up to one minute past the range
TxTimes_PastRange(now_us, earliest_time) ==
    LET time_range == now_us - earliest_time
    IN  IF time_range <= 0 THEN {now_us}
        ELSE {TruncMinute(earliest_time + random_seconds) :
                 random_seconds \in 0..(time_range + SecondsPerMinute)}

\* the created_at values one row can get
TxTimes(now_us, earliest_time) ==
    LET time_range == now_us - earliest_time
    IN  IF time_range <= 0 THEN {now_us}
        ELSE {TruncMinute(earliest_time + random_seconds) :
                 random_seconds \in 0..time_range}

\* the amount a generated row is stored with
StoredAmount(tx_type, amount) == amount

NewRows(tx_type, amounts, times) ==
    [i \in 1..Len(amounts) |->
        Row(0, tx_type, StoredAmount(tx_type, amounts[i]), times[i])]

\* created_at is stored as tx_time.isoformat(), a string; a row of the model
\* keeps the time, and IsoFormat gives the characters that tell two strings
\* apart: the digits of the minutes and of the seconds (every time of the
\* model lies within one hour, so the date and hour characters are equal)
IsoFormat(t) ==
    LET m == t \div SecondsPerMinute
        sec == t % SecondsPerMinute
    IN  <<m \div 10, m % 10, sec \div 10, sec % 10>>

\* a <= b on strings: character by character, a prefix before its extensions
RECURSIVE StrLeq(_, _)
StrLeq(a, b) ==
    IF a = <<>> THEN TRUE
    ELSE IF b = <<>> THEN FALSE
    ELSE IF Head(a) # Head(b) THEN Head(a) < Head(b)
    ELSE StrLeq(Tail(a), Tail(b))

\* list.sort(key=created_at): stable, ascending, on the strings
RECURSIVE InsertByCreatedAt(_, _)
InsertByCreatedAt(sorted, x) ==
    IF sorted = <<>> THEN <<x>>
    ELSE IF StrLeq(IsoFormat(sorted[Len(sorted)].created_at), IsoFormat(x.created_at))
         THEN Append(sorted, x)
    ELSE Append(InsertByCreatedAt(SubSeq(sorted, 1, Len(sorted) - 1), x),
                sorted[Len(sorted)])

RECURSIVE SortRows(_, _)
SortRows(sorted, rest) ==
    IF rest = <<>> THEN sorted
    ELSE SortRows(InsertByCreatedAt(sorted, Head(rest)), Tail(rest))

\* the rows persisted in the order they were built, the sort left out
SortByCreatedAt_Skipped(rows) == rows

SortByCreatedAt(rows) == SortRows(<<>>, rows)

GenPersist ==
    /\ pc = "persist"
    /\ \E tr \in [1..Len(g.received_amounts) -> TxTimes(g.now_us, g.earliest_time)],
          ts \in [1..Len(g.sent_amounts) -> TxTimes(g.now_us, g.earliest_time)] :
          LET all_transactions ==
                  SortByCreatedAt(NewRows("received", g.received_amounts, tr)
                                  \o NewRows("sent", g.sent_amounts, ts))
          IN  /\ transactions' = AddAll(transactions, all_transactions)
              /\ resp' = [op |-> "generate", status |-> 200, message |-> "Generated",
                          generated |-> Len(all_transactions),
                          received_count |-> Len(g.received_amounts),
                          sent_count |-> Len(g.sent_amounts),
                          total_received |-> SumSeq(g.received_amounts),
                          total_sent |-> SumSeq(g.sent_amounts),
                          rows |-> all_transactions,
                          request |-> resp.request,
                          call |-> g]
    /\ pc' = "idle"
    /\ g' = IdleLocals
    /\ UNCHANGED <<started, account, active_sessions>>

GenerateSteps ==
    \/ GenSentDraw
    \/ GenSentDone
    \/ GenFillReceived
    \/ GenSplitReceived
    \/ GenRemainderReceived
    \/ GenFillSent
    \/ GenSplitSent
    \/ GenRemainderSent
    \/ GenPersist

-----------------------------------------------------------------------------

Next ==
    \/ Startup
    \/ get_account
    \/ \E balance \in Patch(SysBalances, 0) : update_account(balance)
    \/ list_transactions
    \/ clear_all_transactions
    \/ \E tx_type \in SysTxTypes, amount \in SysTxAmounts, now \in Nows :
          create_transaction(tx_type, amount, now)
    \/ \E tx_id \in 1..MaxId, tx_type \in Patch(SysTxTypes, ""),
          amount \in Patch(SysTxAmounts, 0) :
          update_transaction(tx_id, tx_type, amount)
    \/ \E tx_id \in 1..MaxId : delete_transaction(tx_id)
    \/ dashboard
    \/ \E credentials_ok \in BOOLEAN, session_token \in Tokens :
          admin_login(credentials_ok, session_token)
    \/ \E admin_session \in Cookies : admin_logout(admin_session)
    \/ \E admin_session \in Cookies : admin_page(admin_session)
    \/ \E a \in SysArgs :
          /\ GenerateBegin(a.min_count, a.max_amount, a.min_sent_count,
                           a.start_time, a.now_us)
          /\ pc' = "idle" \/ Len(transactions) <= SysGenLedger
    \/ GenerateSteps

Spec == Init /\ [][Next]_vars

-----------------------------------------------------------------------------
(* The generator on its own: any small ledger, any argument combination *)

RowKinds == {Row(0, tx_type, amount, SeedSentAt) : tx_type \in TxTypes, amount \in TxAmounts}

Ledgers ==
    UNION {[1..n -> RowKinds] : n \in 0..GenLedgerLen}

GenInit ==
    /\ started = TRUE
    /\ \E balance \in Balances : account = <<[balance |-> balance]>>
    /\ \E rows \in Ledgers : transactions = AddAll(<<>>, rows)
    /\ active_sessions = {}
    /\ pc = "idle"
    /\ g = IdleLocals
    /\ resp = [op |-> "none", status |-> 0]

\* a first call with any arguments
FirstCall ==
    /\ resp.op = "none"
    /\ \E a \in GenArgs :
          GenerateBegin(a.min_count, a.max_amount, a.min_sent_count, a.start_time, a.now_us)

\* the same call again, right after one that inserted rows
RepeatCall ==
    /\ resp.op = "generate" /\ resp.status = 200 /\ resp.generated > 0
    /\ GenerateBegin(resp.request.min_count, resp.request.max_amount,
                     resp.request.min_sent_count, resp.request.start_time,
                     resp.request.now_us)

GenNext ==
    \/ FirstCall
    \/ RepeatCall
    \/ GenerateSteps

SpecGen == GenInit /\ [][GenNext]_vars

-----------------------------------------------------------------------------
(* Properties *)

\* a generate call has run to its end and built rows (the "Generated" response)
Generated == pc = "idle" /\ resp.op = "generate" /\ resp.message = "Generated"

\* the signed sum of a ledger's 'received' and 'sent' rows, 'fee' rows ignored
ReceivedPlusSent(rows) ==
    SumSeq([i \in 1..Len(rows) |->
               IF rows[i].tx_type = "received" \/ rows[i].tx_type = "sent"
               THEN rows[i].amount ELSE 0])

\* C1: after a generate call that inserted rows, the sum of the stored
\* 'received' and 'sent' amounts equals the account balance within 0.01.
C1_LedgerSumEqualsBalance ==
    (Generated /\ resp.generated > 0)
        => Abs(account[1].balance - ReceivedPlusSent(transactions)) <= Cent

\* C2: the generated received amounts minus the generated sent amounts, plus
\* the net balance computed at the start of the call, equal the target balance
\* within 0.02.
C2_GeneratedNetReachesTarget ==
    Generated
        => Abs(resp.call.actual_balance
               + SumSeq(resp.call.received_amounts) - SumSeq(resp.call.sent_amounts)
               - resp.call.target_balance) <= 2 * Cent

\* a call that drew 'sent' rows and several 'received' rows to cover them
C2_Witness ==
    /\ Generated
    /\ Len(resp.call.sent_amounts) >= 1
    /\ SumSeq(resp.call.sent_amounts) > 0
    /\ Len(resp.call.received_amounts) >= 2

\* the arguments the claim calls invalid
InvalidRequest(r) ==
    \/ r.min_count < 1
    \/ r.max_amount <= 0
    \/ r.min_sent_count < 0
    \/ r.min_sent_count > r.min_count
    \/ (r.start_time.given /\ r.start_time.parses /\ r.start_time.t > r.now_us)

\* C3: with an account present, a generate call with an invalid argument is
\* answered 400 in every ledger state, and persists no rows.
C3_InvalidArgumentsRejected ==
    (pc = "idle" /\ resp.op = "generate" /\ resp.status # 404
        /\ InvalidRequest(resp.request))
        => (resp.status = 400 /\ resp.generated = 0)

\* C4: when the balance and the ledger's received-plus-sent sum differ by less
\* than 0.01, a generate call reports generated = 0 and leaves the transaction
\* table and the account as they were.
C4_MatchedBalanceIsNoOp ==
    [][(pc = "idle" /\ account # <<>> /\ resp'.op = "generate"
          /\ Abs(account[1].balance - ReceivedPlusSent(transactions)) < Cent)
       => (/\ pc' = "idle"
           /\ resp'.status = 200
           /\ resp'.generated = 0
           /\ transactions' = transactions
           /\ account' = account)]_vars

\* the short circuit taken on a ledger that holds rows, half a cent off the balance
C4_Witness ==
    /\ pc = "idle"
    /\ resp.op = "generate"
    /\ resp.message = "Balance already matches target"
    /\ transactions # <<>>
    /\ account[1].balance # ReceivedPlusSent(transactions)

\* C5: no row a generate call produces has an amount above max_amount + 0.01,
\* whichever step drew it (checked on the lists while they are built and on
\* the rows as stored).
C5_AmountsWithinMax ==
    /\ pc # "idle" =>
          \A a \in {g.received_amounts[i] : i \in 1..Len(g.received_amounts)}
                   \cup {g.sent_amounts[i] : i \in 1..Len(g.sent_amounts)} :
             a <= g.max_amount + Cent
    /\ Generated =>
          \A i \in 1..Len(resp.rows) :
             resp.rows[i].amount <= resp.request.max_amount + Cent

\* a stored row above max_amount (by rounding), in a call that also went
\* through the overflow split
C5_Witness ==
    /\ Generated
    /\ resp.generated > resp.request.min_count
    /\ \E i \in 1..Len(resp.rows) : resp.rows[i].amount > resp.request.max_amount

\* C6: a generate call that does not short-circuit produces at least
\* min_sent_count 'sent' rows.
C6_AtLeastMinSentCount ==
    Generated =>
        Cardinality({i \in 1..Len(resp.rows) : resp.rows[i].tx_type = "sent"})
            >= resp.request.min_sent_count

\* C7: a generate call that does not short-circuit produces at least
\* min_count rows.
C7_AtLeastMinCount ==
    Generated => resp.generated >= resp.request.min_count

\* the start of the interval: the supplied start_time, or now - 30 days
WindowStart(r) ==
    IF r.start_time.given THEN r.start_time.t ELSE r.now_us - DefaultWindow

\* C8 as stated: every generated row has start_time <= created_at <= now.
C8_CreatedAtWithinWindow ==
    Generated =>
        \A i \in 1..Len(resp.rows) :
            /\ WindowStart(resp.request) <= resp.rows[i].created_at
            /\ resp.rows[i].created_at <= resp.request.now_us

\* C8 as amended: every generated row has created_at between start_time cut
\* to the whole minute and now.
C8_CreatedAtWithinMinuteWindow ==
    Generated =>
        \A i \in 1..Len(resp.rows) :
            /\ (WindowStart(resp.request) \div SecondsPerMinute) * SecondsPerMinute
                  <= resp.rows[i].created_at
            /\ resp.rows[i].created_at <= resp.request.now_us

\* a row the truncation moved below the start of the interval
C8_Witness ==
    /\ Generated
    /\ \E i \in 1..Len(resp.rows) :
          resp.rows[i].created_at < WindowStart(resp.request)

\* C9: the store never holds more than one account: no step adds a second
\* one or removes the one there is, and a startup that finds an account
\* changes neither table.
C9_SingleAccount ==
    [][/\ Len(account') <= 1
       /\ account # <<>> => account' # <<>>
       /\ (account # <<>> /\ resp'.op = "startup")
             => (account' = account /\ transactions' = transactions)]_vars

\* a restart of a service whose account was edited and whose demo rows are gone
C9_Witness ==
    /\ resp.op = "startup"
    /\ Len(account) = 1
    /\ account[1].balance # SeedBalance
    /\ transactions = <<>>

\* C10: the admin page is rendered only for a cookie that is in the active
\* session set.
C10_AdminPageNeedsActiveSession ==
    (resp.op = "admin_page" /\ resp.status = 200) => resp.cookie \in active_sessions

\* C11: with no account row, get account, update account, generate and the
\* dashboard read each answer 404; update or delete of a transaction id that
\* does not exist answers 404 and leaves the transaction table unchanged.
C11_MissingRowsAreNotFound ==
    [][/\ (account = <<>> /\ resp'.op \in {"get_account", "update_account",
                                            "generate", "dashboard"})
             => resp'.status = 404
       /\ (resp'.op \in {"update", "delete"}
             /\ \A i \in 1..Len(transactions) : transactions[i].id # resp'.tx_id)
             => (resp'.status = 404 /\ transactions' = transactions)]_vars

\* a ledger with its 'fee' rows taken out
WithoutFees(rows) == SelectSeq(rows, LAMBDA tx : tx.tx_type # "fee")

\* ledgers that differ from rows only in their 'fee' rows: the other rows in
\* the same order, with 'fee' rows of any amounts put before and after them
FeeVariants(rows) ==
    LET FeeRows == {r \in RowKinds : r.tx_type = "fee"}
        FeeSeqs == UNION {[1..n -> FeeRows] : n \in 0..GenLedgerLen}
    IN  {before \o WithoutFees(rows) \o after : before \in FeeSeqs, after \in FeeSeqs}

\* C12: the decision of a generate call (short circuit or generate) and the
\* difference and total it goes on to generate are those of every ledger that
\* differs from the stored one only in its 'fee' rows.
C12_FeeRowsDoNotCount ==
    [][(pc = "idle" /\ pc' # "persist" /\ account # <<>> /\ resp'.op = "generate")
       => \A other \in FeeVariants(transactions) :
             LET difference == account[1].balance - ActualBalance(other)
             IN  /\ (resp'.message = "Balance already matches target")
                        <=> (Abs(difference) < Cent)
                 /\ pc' # "idle" => /\ g'.difference = difference
                                    /\ g'.total_amount = Abs(difference)]_vars

\* a call that generates on a ledger holding a 'fee' row of a non-zero amount
C12_Witness ==
    /\ pc \in {"sent_draws", "fill_sent"}
    /\ g.sent_amounts = <<>>
    /\ \E i \in 1..Len(transactions) :
          transactions[i].tx_type = "fee" /\ transactions[i].amount # 0

\* C13: every row a generate call produces has an amount of at least 0.01.
C13_AmountsAtLeastOneCent ==
    Generated => \A i \in 1..Len(resp.rows) : resp.rows[i].amount >= min_tx_amount

\* the rows the last generate call added to the store
Batch == SubSeq(transactions, Len(transactions) - resp.generated + 1, Len(transactions))

\* C14: of any two rows of one generated batch, the one with the smaller id
\* has the earlier or the same created_at, whatever their types.
C14_BatchInCreatedAtOrder ==
    Generated =>
        \A i, j \in 1..Len(Batch) :
            Batch[i].id < Batch[j].id => Batch[i].created_at <= Batch[j].created_at

\* a batch whose 'sent' row is older than a 'received' row: built after it,
\* stored before it
C14_Witness ==
    /\ Generated
    /\ \E i, j \in 1..Len(Batch) :
          /\ Batch[i].tx_type = "sent" /\ Batch[j].tx_type = "received"
          /\ Batch[i].created_at < Batch[j].created_at
          /\ Batch[i].id < Batch[j].id

\* C15: every iteration of a greedy-fill loop lowers the remaining amount or
\* adds a row towards the loop's row bound, and every iteration of an
\* overflow-split loop, which has no row bound, lowers the remaining amount;
\* so each loop ends after finitely many iterations.
C15_LoopIterationsMakeProgress ==
    [][/\ (pc = "fill_received" /\ pc' = "fill_received")
             => \/ g'.remaining < g.remaining
                \/ /\ Len(g'.received_amounts) > Len(g.received_amounts)
                   /\ Len(g'.received_amounts) <= ReceivedCount
       /\ (pc = "fill_sent" /\ pc' = "fill_sent")
             => \/ g'.remaining < g.remaining
                \/ /\ Len(g'.sent_amounts) > Len(g.sent_amounts)
                   /\ Len(g'.sent_amounts) <= SentCount
       /\ (pc = "split_received" /\ pc' = "split_received")
             => g'.remaining < g.remaining
       /\ (pc = "split_sent" /\ pc' = "split_sent")
             => g'.remaining < g.remaining]_vars

\* C16: a generate call that directly follows a call which inserted rows, with
\* the same arguments and the same account and ledger, finds the balance
\* matched: it generates no row and leaves the ledger unchanged.
C16_SecondCallIsNoOp ==
    [][(Generated /\ resp.generated > 0 /\ resp'.op = "generate"
          /\ resp'.request = resp.request)
       => (/\ pc' = "idle"
           /\ resp'.status = 200
           /\ resp'.generated = 0
           /\ transactions' = transactions)]_vars

====
